---- MODULE Spec2Model ----
(***************************************************************************)
(* Huffman file compression (util.h): frequency map, encoding tree,        *)
(* encoding map, encode, decode, compress and decompress.                  *)
(*                                                                         *)
(* The hashmap (hashmapF), the bit streams (ofbitstream / ifbitstream) and *)
(* the two reserved symbols are collaborators that util.h only uses; they  *)
(* are modelled from their described interfaces.                           *)
(***************************************************************************)
EXTENDS Integers, Sequences, FiniteSets, TLC

(***************************************************************************)
(* Bounds and program constants                                            *)
(***************************************************************************)
MaxLen == 5            \* longest source file, in bytes
MaxCount == 3          \* largest count of a directly supplied frequency model

PSEUDO_EOF == 256
NOT_A_CHAR == 257
NUM_BITS_IN_BYTE == 8
NULL == 0              \* nullptr

Bytes == {97, 98, 200}                 \* byte values a source may hold
FileNames == {<<97>>, <<98, 97>>}      \* names compress may be called with
Junk == {<< >>, <<255>>}               \* bytes that may follow a payload

\* char -> int, as done when a char is passed as a hashmap / map key
\* (char is signed: bytes above 127 become negative keys)
CharToInt(c) == IF c >= 128 THEN c - 256 ELSE c
\* int -> char, as done by  buildString += curNode->character  and output.put
IntToChar(i) == i % 256

Keys == {CharToInt(b) : b \in Bytes} \cup {PSEUDO_EOF}
\* the enumeration orders of a hashmap whose keys lie in K
OrdersOf(K) == {p \in [1..Cardinality(K) -> K] :
                   \A i, j \in DOMAIN p : p[i] = p[j] => i = j}
KeyOrders == OrdersOf(Keys)

FileContents == UNION {[1..n -> Bytes] : n \in 0..MaxLen}

(***************************************************************************)
(* hashmapF: mapping from symbol to count, enumerable, lookup by key.      *)
(* The enumeration order of keys() is a fixed but arbitrary order of the   *)
(* container (keyOrder), the same for equal mappings.                      *)
(***************************************************************************)
EmptyMap == << >>
containsKey(map, key) == key \in DOMAIN map
get(map, key) == map[key]
put(map, key, value) ==
    [k \in (DOMAIN map) \cup {key} |-> IF k = key THEN value ELSE map[k]]
keys(map, order) == SelectSeq(order, LAMBDA k : k \in DOMAIN map)

(***************************************************************************)
(* buildFrequencyMap (lines 61-89)                                         *)
(***************************************************************************)
\* countChar with the increment lost: a repeated character is stored as 1
countCharNoAdd(map, cur) == put(map, CharToInt(cur), 1)

\* one iteration of either loop body: lines 69-74 / 80-85
countChar(map, cur) ==
    IF containsKey(map, CharToInt(cur))
       THEN put(map, CharToInt(cur), get(map, CharToInt(cur)) + 1)
       ELSE put(map, CharToInt(cur), 1)

RECURSIVE countAll(_, _, _)
countAll(chars, i, map) ==
    IF i > Len(chars) THEN map
    ELSE countAll(chars, i + 1, countChar(map, chars[i]))

\* content is what inPut yields (the file's bytes); filename is the string
buildFrequencyMap(filename, isFile, content, map) ==
    LET scanned == IF isFile THEN countAll(content, 1, map)
                             ELSE countAll(filename, 1, map)
    IN  put(scanned, PSEUDO_EOF, 1)

(***************************************************************************)
(* HuffmanNode store: mem[a] is the node at address a, NULL = 0.           *)
(***************************************************************************)
HuffmanNode(character, count, zero, one) ==
    [character |-> character, count |-> count, zero |-> zero, one |-> one]

\* compare with the comparison turned round (largest count on top)
compareReversed(mem, lhs, rhs) == mem[lhs].count < mem[rhs].count

\* struct compare (lines 27-34)
compare(mem, lhs, rhs) == mem[lhs].count > mem[rhs].count

(***************************************************************************)
(* std::priority_queue<HuffmanNode*, vector<HuffmanNode*>, compare>:       *)
(* a binary heap in a vector c (0-based index i is c[i+1]), push = push_back*)
(* + push_heap, pop = pop_heap + pop_back.                                 *)
(***************************************************************************)
RECURSIVE pushHeap(_, _, _, _, _)
pushHeap(mem, c, holeIndex, topIndex, value) ==
    IF holeIndex > topIndex
       /\ compare(mem, c[((holeIndex - 1) \div 2) + 1], value)
    THEN pushHeap(mem,
                  [c EXCEPT ![holeIndex + 1] = c[((holeIndex - 1) \div 2) + 1]],
                  (holeIndex - 1) \div 2, topIndex, value)
    ELSE [c EXCEPT ![holeIndex + 1] = value]

RECURSIVE adjustHeap(_, _, _, _, _, _)
adjustHeap(mem, c, holeIndex, secondChild, len, value) ==
    IF secondChild < (len - 1) \div 2
    THEN LET r == 2 * (secondChild + 1)
             pick == IF compare(mem, c[r + 1], c[r]) THEN r - 1 ELSE r
         IN  adjustHeap(mem, [c EXCEPT ![holeIndex + 1] = c[pick + 1]],
                        pick, pick, len, value)
    ELSE IF len % 2 = 0 /\ secondChild = (len - 2) \div 2
    THEN LET r == 2 * (secondChild + 1)
         IN  pushHeap(mem, [c EXCEPT ![holeIndex + 1] = c[r]], r - 1, 0, value)
    ELSE pushHeap(mem, c, holeIndex, 0, value)

pqPush(mem, c, node) == pushHeap(mem, Append(c, node), Len(c), 0, node)
pqTop(c) == c[1]
pqPop(mem, c) ==
    IF Len(c) > 1
    THEN LET moved == [c EXCEPT ![Len(c)] = c[1]]
             heap  == adjustHeap(mem, moved, 0, 0, Len(c) - 1, c[Len(c)])
         IN  SubSeq(heap, 1, Len(c) - 1)
    ELSE << >>

(***************************************************************************)
(* buildEncodingTree (lines 94-126)                                        *)
(***************************************************************************)
\* lines 98-106: one leaf per key, in keys() order
RECURSIVE pushLeaves(_, _, _, _, _)
pushLeaves(map, allChars, i, mem, pq) ==
    IF i > Len(allChars) THEN [mem |-> mem, pq |-> pq]
    ELSE LET curNode == HuffmanNode(allChars[i], get(map, allChars[i]), NULL, NULL)
             mem2 == Append(mem, curNode)
         IN  pushLeaves(map, allChars, i + 1, mem2, pqPush(mem2, pq, Len(mem2)))

\* lines 108-124
RECURSIVE mergeLoop(_, _)
mergeLoop(mem, pq) ==
    IF Len(pq) > 1
    THEN LET firstNode == pqTop(pq)
             pq1 == pqPop(mem, pq)
         IN  IF pqTop(pq1) # NULL
             THEN LET secondNode == pqTop(pq1)
                      pq2 == pqPop(mem, pq1)
                      sumNode == HuffmanNode(NOT_A_CHAR,
                                    mem[firstNode].count + mem[secondNode].count,
                                    firstNode, secondNode)
                      mem2 == Append(mem, sumNode)
                  IN  mergeLoop(mem2, pqPush(mem2, pq2, Len(mem2)))
             ELSE mergeLoop(mem, pq1)
    ELSE [mem |-> mem, pq |-> pq]

\* emptyTop: line 125 took pq.top() of an empty queue (undefined behaviour)
buildEncodingTree(map, order, mem) ==
    LET leaves == pushLeaves(map, keys(map, order), 1, mem, << >>)
        merged == mergeLoop(leaves.mem, leaves.pq)
    IN  [mem |-> merged.mem,
         root |-> IF Len(merged.pq) = 0 THEN NULL ELSE pqTop(merged.pq),
         emptyTop |-> Len(merged.pq) = 0]

(***************************************************************************)
(* _buildEncodingMap (lines 131-140) and buildEncodingMap (lines 145-149)  *)
(* A code is a string of "0" / "1" characters.                             *)
(***************************************************************************)
\* unordered_map::emplace: no effect when the key is already present
emplace(encodingMap, key, str) == encodingMap @@ (key :> str)
\* str.substr(0, str.size()-1)
dropLast(str) == SubSeq(str, 1, Len(str) - 1)

\* _buildEncodingMap without the substr that drops the '0' before the '1'
RECURSIVE _buildEncodingMapNoBacktrack(_, _, _, _)
_buildEncodingMapNoBacktrack(mem, node, encodingMap, str) ==
    IF mem[node].character # NOT_A_CHAR
    THEN emplace(encodingMap, mem[node].character, str)
    ELSE LET str0 == Append(str, "0")
             em0  == _buildEncodingMapNoBacktrack(mem, mem[node].zero,
                                                  encodingMap, str0)
             str1 == Append(str0, "1")
         IN  _buildEncodingMapNoBacktrack(mem, mem[node].one, em0, str1)

RECURSIVE _buildEncodingMap(_, _, _, _)
_buildEncodingMap(mem, node, encodingMap, str) ==
    IF mem[node].character # NOT_A_CHAR
    THEN emplace(encodingMap, mem[node].character, str)
    ELSE LET str0 == Append(str, "0")
             em0  == _buildEncodingMap(mem, mem[node].zero, encodingMap, str0)
             str1 == Append(dropLast(str0), "1")
         IN  _buildEncodingMap(mem, mem[node].one, em0, str1)

buildEncodingMap(mem, tree) == _buildEncodingMap(mem, tree, << >>, << >>)

(***************************************************************************)
(* ofbitstream / ifbitstream: single-bit writes and reads, bits packed     *)
(* most-significant-first in each byte, last byte zero-padded; the         *)
(* end-of-stream indicator is set by the read that finds no byte left.     *)
(***************************************************************************)
RECURSIVE Pow2(_)
Pow2(n) == IF n = 0 THEN 1 ELSE 2 * Pow2(n - 1)

GetNthBit(n, byte) == (byte \div Pow2(NUM_BITS_IN_BYTE - 1 - n)) % 2

RECURSIVE PackByte(_, _, _)
PackByte(bits, from, n) ==
    IF n = NUM_BITS_IN_BYTE THEN 0
    ELSE (IF from + n <= Len(bits) THEN bits[from + n] ELSE 0)
             * Pow2(NUM_BITS_IN_BYTE - 1 - n)
         + PackByte(bits, from, n + 1)

\* the bytes the sink holds once it is closed
PackBits(bits) ==
    [i \in 1..((Len(bits) + NUM_BITS_IN_BYTE - 1) \div NUM_BITS_IN_BYTE) |->
        PackByte(bits, (i - 1) * NUM_BITS_IN_BYTE + 1, 0)]

\* a bit source positioned at the first payload byte
OpenBits(bytes) ==
    [bytes |-> bytes, next |-> 1, curByte |-> 0, pos |-> NUM_BITS_IN_BYTE,
     eof |-> FALSE, nread |-> 0]

\* readBit: the bit read (or -1 at end of stream) and the source afterwards
readBit(in) ==
    IF in.pos = NUM_BITS_IN_BYTE /\ in.next > Len(in.bytes)
    THEN [bit |-> -1, in |-> [in EXCEPT !.eof = TRUE]]
    ELSE LET cur == IF in.pos = NUM_BITS_IN_BYTE THEN in.bytes[in.next]
                                                 ELSE in.curByte
             p   == IF in.pos = NUM_BITS_IN_BYTE THEN 0 ELSE in.pos
         IN  [bit |-> GetNthBit(p, cur),
              in  |-> [in EXCEPT !.curByte = cur, !.pos = p + 1,
                                 !.next = IF in.pos = NUM_BITS_IN_BYTE
                                             THEN in.next + 1 ELSE in.next,
                                 !.nread = in.nread + 1]]

(***************************************************************************)
(* encode (lines 158-188)                                                  *)
(***************************************************************************)
\* lines 167-173 / 178-184: the bits written for one code, one per character
RECURSIVE writeCode(_, _)
writeCode(code, i) ==
    IF i > Len(code) THEN << >>
    ELSE (IF code[i] = "0" THEN <<0>> ELSE << >>)
         \o (IF code[i] = "1" THEN <<1>> ELSE << >>)
         \o writeCode(code, i + 1)

\* st = [written, size, buildString, threw]; encodingMap.at throws when the
\* key is absent
RECURSIVE encodeLoop(_, _, _, _)
encodeLoop(input, i, encodingMap, st) ==
    IF i > Len(input) THEN st
    ELSE IF CharToInt(input[i]) \notin DOMAIN encodingMap
    THEN [st EXCEPT !.threw = TRUE]
    ELSE LET code == encodingMap[CharToInt(input[i])]
         IN  encodeLoop(input, i + 1, encodingMap,
                        [st EXCEPT !.written = @ \o writeCode(code, 1),
                                   !.size = @ + Len(code),
                                   !.buildString = @ \o code])

\* encode that does not count the bits of the PSEUDO_EOF code in size
encodeEofUncounted(input, encodingMap, size, makeFile) ==
    LET st0 == [written |-> << >>, size |-> size, buildString |-> << >>,
                threw |-> FALSE]
    IN  IF ~makeFile THEN st0
        ELSE LET st1 == encodeLoop(input, 1, encodingMap, st0)
             IN  IF st1.threw \/ PSEUDO_EOF \notin DOMAIN encodingMap
                 THEN [st1 EXCEPT !.threw = TRUE]
                 ELSE LET eof == encodingMap[PSEUDO_EOF]
                      IN  [st1 EXCEPT !.written = @ \o writeCode(eof, 1),
                                      !.buildString = @ \o eof]

\* input: the bytes the stream yields (none when it is not open)
encode(input, encodingMap, size, makeFile) ==
    LET st0 == [written |-> << >>, size |-> size, buildString |-> << >>,
                threw |-> FALSE]
    IN  IF ~makeFile THEN st0
        ELSE LET st1 == encodeLoop(input, 1, encodingMap, st0)
             IN  IF st1.threw \/ PSEUDO_EOF \notin DOMAIN encodingMap
                 THEN [st1 EXCEPT !.threw = TRUE]
                 ELSE LET eof == encodingMap[PSEUDO_EOF]
                      IN  [st1 EXCEPT !.written = @ \o writeCode(eof, 1),
                                      !.size = @ + Len(eof),
                                      !.buildString = @ \o eof]

(***************************************************************************)
(* decode (lines 196-218): one iteration of the while loop.                *)
(* d = [curNode, buildString, output, in, status]                          *)
(***************************************************************************)
\* moveTo with the two children exchanged
moveToSwapped(mem, curNode, bit) ==
    IF bit = 0 THEN mem[curNode].one
    ELSE IF bit = 1 THEN mem[curNode].zero
    ELSE curNode

\* lines 211-214
moveTo(mem, curNode, bit) ==
    IF bit = 0 THEN mem[curNode].zero
    ELSE IF bit = 1 THEN mem[curNode].one
    ELSE curNode

\* decodeIter without the break at PSEUDO_EOF: the sentinel leaf is treated
\* as any other leaf
decodeIterNoBreak(mem, encodingTree, d) ==
    IF d.in.eof THEN [d EXCEPT !.status = "returned"]
    ELSE IF d.curNode = NULL THEN [d EXCEPT !.status = "crashed"]
    ELSE LET leaf == mem[d.curNode].character # NOT_A_CHAR
             ch   == IntToChar(mem[d.curNode].character)
             node == IF leaf THEN encodingTree ELSE d.curNode
             rd   == readBit(d.in)
         IN  [d EXCEPT !.buildString = IF leaf THEN Append(@, ch) ELSE @,
                       !.output = IF leaf THEN Append(@, ch) ELSE @,
                       !.in = rd.in,
                       !.curNode = moveTo(mem, node, rd.bit)]

decodeIter(mem, encodingTree, d) ==
    IF d.in.eof THEN [d EXCEPT !.status = "returned"]          \* line 200
    ELSE IF d.curNode = NULL THEN [d EXCEPT !.status = "crashed"]
    ELSE IF mem[d.curNode].character = PSEUDO_EOF              \* lines 201-202
    THEN [d EXCEPT !.status = "returned"]
    ELSE LET leaf == mem[d.curNode].character # NOT_A_CHAR     \* lines 204-208
             ch   == IntToChar(mem[d.curNode].character)
             node == IF leaf THEN encodingTree ELSE d.curNode
             rd   == readBit(d.in)                             \* line 210
         IN  [d EXCEPT !.buildString = IF leaf THEN Append(@, ch) ELSE @,
                       !.output = IF leaf THEN Append(@, ch) ELSE @,
                       !.in = rd.in,
                       !.curNode = moveTo(mem, node, rd.bit)]

(***************************************************************************)
(* _freeTree (lines 40-49): the addresses deleted, in order                *)
(***************************************************************************)
\* _freeTree that does not descend into the one child
RECURSIVE _freeTreeZeroOnly(_, _)
_freeTreeZeroOnly(mem, root) ==
    IF root = NULL THEN << >>
    ELSE _freeTreeZeroOnly(mem, mem[root].zero) \o <<root>>

RECURSIVE _freeTree(_, _)
_freeTree(mem, root) ==
    IF root = NULL THEN << >>
    ELSE _freeTree(mem, mem[root].zero) \o _freeTree(mem, mem[root].one)
         \o <<root>>

(***************************************************************************)
(* Frequency header persistence:  output << map  /  input >> frequencyMap  *)
(* (symbol, count) pairs in enumeration order, parsed back by put.         *)
(***************************************************************************)
writeHeader(map, order) ==
    [i \in 1..Len(keys(map, order)) |->
        <<keys(map, order)[i], get(map, keys(map, order)[i])>>]

RECURSIVE readHeader(_, _, _)
readHeader(pairs, i, map) ==
    IF i > Len(pairs) THEN map
    ELSE readHeader(pairs, i + 1, put(map, pairs[i][1], pairs[i][2]))

(***************************************************************************)
(* State                                                                   *)
(***************************************************************************)
VARIABLES
    openable,      \* the source file named filename can be opened
    content,       \* its bytes
    filename,      \* the string compress is called with
    keyOrder,      \* enumeration order of the hashmap
    pc,            \* position in compress / decompress
    map,           \* compress: frequency map
    mem,           \* every HuffmanNode allocated so far
    deleted,       \* addresses passed to delete, in order
    root,          \* root returned by buildEncodingTree
    emptyTop,      \* buildEncodingTree took the top of an empty queue
    encodingMap,   \* compress: code table
    enc,           \* what encode wrote, counted and returned
    huf,           \* the .huf file compress produced
    inHuf,         \* the .huf file decompress reads
    frequencyMap,  \* decompress: frequency map parsed from the header
    d,             \* decode: loop state
    result         \* how the current call ended

vars == <<openable, content, filename, keyOrder, pc, map, mem, deleted, root,
          emptyTop, encodingMap, enc, huf, inHuf, frequencyMap, d, result>>

NoEnc == [written |-> << >>, size |-> 0, buildString |-> << >>, threw |-> FALSE]
NoHuf == [written |-> FALSE, header |-> << >>, bytes |-> << >>]
NoIn  == [kind |-> "none", header |-> << >>, bytes |-> << >>]
NoDecode == [curNode |-> NULL, buildString |-> << >>, output |-> << >>,
             in |-> OpenBits(<< >>), status |-> "idle"]

Blank ==
    /\ mem = << >> /\ deleted = << >> /\ root = NULL /\ emptyTop = FALSE
    /\ encodingMap = << >> /\ enc = NoEnc /\ huf = NoHuf /\ inHuf = NoIn
    /\ frequencyMap = EmptyMap /\ d = NoDecode /\ result = "none"

\* compress(filename) is about to run on a source that holds content, or on
\* a name that cannot be opened
Init ==
    /\ \/ openable = TRUE /\ content \in FileContents /\ filename = <<97>>
       \/ openable = FALSE /\ content = << >> /\ filename \in FileNames
    /\ keyOrder \in KeyOrders
    /\ pc = "c_start"
    /\ map = EmptyMap
    /\ Blank

(***************************************************************************)
(* compress (lines 227-251)                                                *)
(***************************************************************************)
\* lines 229-236
CompressFrequency ==
    /\ pc = "c_start"
    /\ LET isFile == openable
       IN  map' = buildFrequencyMap(filename, isFile, content, EmptyMap)
    /\ pc' = "c_tree"
    /\ UNCHANGED <<openable, content, filename, keyOrder, mem, deleted, root,
                   emptyTop, encodingMap, enc, huf, inHuf, frequencyMap, d,
                   result>>

\* line 239
CompressTree ==
    /\ pc = "c_tree"
    /\ LET t == buildEncodingTree(map, keyOrder, mem)
       IN  /\ mem' = t.mem
           /\ root' = t.root
           /\ emptyTop' = t.emptyTop
           /\ pc' = IF t.emptyTop THEN "crashed" ELSE "c_map"
           /\ result' = IF t.emptyTop THEN "crashed" ELSE result
    /\ UNCHANGED <<openable, content, filename, keyOrder, map, deleted,
                   encodingMap, enc, huf, inHuf, frequencyMap, d>>

\* line 240
CompressMap ==
    /\ pc = "c_map"
    /\ encodingMap' = buildEncodingMap(mem, root)
    /\ pc' = "c_encode"
    /\ UNCHANGED <<openable, content, filename, keyOrder, map, mem, deleted,
                   root, emptyTop, enc, huf, inHuf, frequencyMap, d, result>>

\* lines 243-248: the header, then the payload; an exception leaves compress
CompressEncode ==
    /\ pc = "c_encode"
    /\ LET input == IF openable THEN content ELSE << >>
           e == encode(input, encodingMap, 0, TRUE)
       IN  /\ enc' = e
           /\ huf' = [written |-> TRUE, header |-> writeHeader(map, keyOrder),
                      bytes |-> PackBits(e.written)]
           /\ pc' = IF e.threw THEN "c_threw" ELSE "c_free"
           /\ result' = IF e.threw THEN "exception" ELSE result
    /\ UNCHANGED <<openable, content, filename, keyOrder, map, mem, deleted,
                   root, emptyTop, encodingMap, inHuf, frequencyMap, d>>

\* lines 249-250
CompressFree ==
    /\ pc = "c_free"
    /\ deleted' = deleted \o _freeTree(mem, root)
    /\ result' = "returned"
    /\ pc' = "c_done"
    /\ UNCHANGED <<openable, content, filename, keyOrder, map, mem, root,
                   emptyTop, encodingMap, enc, huf, inHuf, frequencyMap, d>>

(***************************************************************************)
(* decompress (lines 263-287)                                              *)
(***************************************************************************)
\* the files decompress may be given: what compress wrote (possibly followed
\* by further bytes), a copy cut short, or a copy whose header holds no pair
HufInputs ==
    {[kind |-> "whole", header |-> huf.header, bytes |-> huf.bytes \o j] :
        j \in Junk}
    \cup {[kind |-> "cut", header |-> huf.header,
           bytes |-> SubSeq(huf.bytes, 1, k)] : k \in 0..(Len(huf.bytes) - 1)}
    \cup {[kind |-> "noheader", header |-> << >>, bytes |-> huf.bytes]}

\* lines 264-279
DecompressHeader ==
    /\ pc = "c_done"
    /\ \E f \in HufInputs :
          /\ inHuf' = f
          /\ frequencyMap' = readHeader(f.header, 1, EmptyMap)
          /\ d' = [NoDecode EXCEPT !.in = OpenBits(f.bytes)]
    /\ result' = "none"
    /\ pc' = "d_tree"
    /\ UNCHANGED <<openable, content, filename, keyOrder, map, mem, deleted,
                   root, emptyTop, encodingMap, enc, huf>>

\* line 282 and line 198; the top of an empty queue is undefined: the call
\* dies there, or goes on with a null root
DecompressTree ==
    /\ pc = "d_tree"
    /\ LET t == buildEncodingTree(frequencyMap, keyOrder, mem)
       IN  /\ mem' = t.mem
           /\ root' = t.root
           /\ emptyTop' = t.emptyTop
           /\ d' = [d EXCEPT !.curNode = t.root, !.status = "running"]
           /\ \E dies \in (IF t.emptyTop THEN BOOLEAN ELSE {FALSE}) :
                 /\ pc' = IF dies THEN "crashed" ELSE "d_decode"
                 /\ result' = IF dies THEN "crashed" ELSE result
    /\ UNCHANGED <<openable, content, filename, keyOrder, map, deleted,
                   encodingMap, enc, huf, inHuf, frequencyMap>>

\* lines 200-217: one test of the loop condition and one pass of the body
DecodeLoop ==
    /\ pc = "d_decode"
    /\ LET n == decodeIter(mem, root, d)
       IN  /\ d' = n
           /\ pc' = IF n.status = "returned" THEN "d_free"
                    ELSE IF n.status = "crashed" THEN "crashed"
                    ELSE "d_decode"
           /\ result' = IF n.status = "crashed" THEN "crashed" ELSE result
    /\ UNCHANGED <<openable, content, filename, keyOrder, map, mem, deleted,
                   root, emptyTop, encodingMap, enc, huf, inHuf, frequencyMap>>

\* lines 285-286
DecompressFree ==
    /\ pc = "d_free"
    /\ deleted' = deleted \o _freeTree(mem, root)
    /\ result' = "returned"
    /\ pc' = "d_done"
    /\ UNCHANGED <<openable, content, filename, keyOrder, map, mem, root,
                   emptyTop, encodingMap, enc, huf, inHuf, frequencyMap, d>>

Next ==
    \/ CompressFrequency
    \/ CompressTree
    \/ CompressMap
    \/ CompressEncode
    \/ CompressFree
    \/ DecompressHeader
    \/ DecompressTree
    \/ DecodeLoop
    \/ DecompressFree

Spec == Init /\ [][Next]_vars

(***************************************************************************)
(* buildEncodingTree and buildEncodingMap on any non-empty frequency model *)
(***************************************************************************)
ModelKeys == Keys \cup {99}
Models == UNION {[K -> 1..MaxCount] : K \in (SUBSET ModelKeys) \ {{}}}

InitTree ==
    /\ openable = FALSE /\ content = << >> /\ filename = << >>
    /\ keyOrder \in OrdersOf(ModelKeys)
    /\ pc = "c_tree"
    /\ map \in Models
    /\ Blank

NextTree ==
    \/ CompressTree
    \/ CompressMap

SpecTree == InitTree /\ [][NextTree]_vars

(***************************************************************************)
(* Properties                                                              *)
(***************************************************************************)
Count(seq, x) == Cardinality({i \in DOMAIN seq : seq[i] = x})
IsPrefix(p, q) == Len(p) <= Len(q) /\ SubSeq(q, 1, Len(p)) = p

RECURSIVE SumOver(_, _)
SumOver(f, S) ==
    IF S = {} THEN 0
    ELSE LET x == CHOOSE y \in S : TRUE IN f[x] + SumOver(f, S \ {x})

\* the node reached from node by following code, NULL when the path leaves
\* the tree
RECURSIVE Walk(_, _, _, _)
Walk(m, node, code, i) ==
    IF node = NULL \/ i > Len(code) THEN node
    ELSE Walk(m, IF code[i] = "0" THEN m[node].zero ELSE m[node].one, code, i + 1)

\* the characters the source yields to the frequency scan, and to encode
Scanned == IF openable THEN content ELSE filename
Encoded == IF openable THEN content ELSE << >>

\* decompress was given exactly the file compress wrote
Intact == inHuf.kind = "whole" /\ inHuf.bytes = huf.bytes
AtSentinel == d.curNode # NULL /\ mem[d.curNode].character = PSEUDO_EOF

C2_TruncatedReported ==
    (pc \in {"d_free", "d_done"} /\ d.in.eof /\ ~AtSentinel)
        => d.status = "TruncatedStream"

\* C3: on a bit source holding the codes of s1..sn, the PSEUDO_EOF code and
\* then padding, decode emits exactly s1..sn in order, never the sentinel,
\* and reads no bit past the PSEUDO_EOF code.
C3_DecodeStopsAtSentinel ==
    (pc \in {"d_decode", "d_free", "d_done"} /\ inHuf.kind = "whole")
        => /\ IsPrefix(d.buildString, Encoded)
           /\ d.output = d.buildString
           /\ d.in.nread <= Len(enc.written)
           /\ (AtSentinel \/ pc \in {"d_free", "d_done"})
                 => /\ d.buildString = Encoded
                    /\ d.in.nread = Len(enc.written)
                    /\ AtSentinel
                    /\ ~d.in.eof

C3_Witness ==
    /\ pc = "d_free" /\ inHuf.kind = "whole" /\ inHuf.bytes # huf.bytes
    /\ Len(Encoded) = 3
    /\ Len(enc.written) % NUM_BITS_IN_BYTE # 0

\* weighted path length of the tree under node, with the model's counts
RECURSIVE WPL(_, _, _, _)
WPL(m, f, node, depth) ==
    IF m[node].character # NOT_A_CHAR THEN f[m[node].character] * depth
    ELSE WPL(m, f, m[node].zero, depth + 1) + WPL(m, f, m[node].one, depth + 1)

RECURSIVE Leaves(_, _)
Leaves(m, node) ==
    IF m[node].character # NOT_A_CHAR THEN <<m[node].character>>
    ELSE Leaves(m, m[node].zero) \o Leaves(m, m[node].one)

\* least weighted path length of a binary tree whose leaves are the symbols
\* in S: every split of S into the leaves of the two subtrees is tried
RECURSIVE MinWPL(_, _)
MinWPL(f, S) ==
    IF Cardinality(S) = 1 THEN 0
    ELSE LET x == CHOOSE y \in S : TRUE
             splits == {A \in SUBSET S : x \in A /\ A # S}
             costs == {MinWPL(f, A) + MinWPL(f, S \ A) : A \in splits}
         IN  SumOver(f, S) + (CHOOSE c \in costs : \A e \in costs : c <= e)

\* C4: for every non-empty frequency model and every enumeration order of
\* its symbols, the tree buildEncodingTree returns has the model's symbols
\* as its leaves, once each, and its weighted path length is the least one
\* of any binary tree over those symbols and counts.
C4_Optimal ==
    (pc \in {"c_map", "c_encode"})
        => /\ Len(Leaves(mem, root)) = Cardinality(DOMAIN map)
           /\ {Leaves(mem, root)[i] : i \in 1..Len(Leaves(mem, root))} = DOMAIN map
           /\ WPL(mem, map, root, 0) = MinWPL(map, DOMAIN map)

C4_Witness ==
    /\ pc = "c_map"
    /\ DOMAIN map = {97, 98, -56, PSEUDO_EOF}
    /\ map[97] = map[98] /\ map[PSEUDO_EOF] = 1 /\ map[-56] = 3
    /\ keyOrder[1] = PSEUDO_EOF

\* C5: for a tree built from a model with at least 2 symbols, the table of
\* buildEncodingMap has one entry per symbol of the model, each entry is the
\* path from the root to that symbol's leaf, and no code is a prefix of
\* another symbol's code.
C5_PrefixCode ==
    (pc = "c_encode" /\ Cardinality(DOMAIN map) >= 2)
        => /\ DOMAIN encodingMap = DOMAIN map
           /\ \A k \in DOMAIN encodingMap :
                 /\ Walk(mem, root, encodingMap[k], 1) # NULL
                 /\ mem[Walk(mem, root, encodingMap[k], 1)].character = k
           /\ \A k1, k2 \in DOMAIN encodingMap :
                 k1 # k2 => ~IsPrefix(encodingMap[k1], encodingMap[k2])

C5_Witness ==
    /\ pc = "c_encode"
    /\ Cardinality(DOMAIN map) = 4
    /\ \E k \in DOMAIN encodingMap : Len(encodingMap[k]) = 3

\* C6: after buildFrequencyMap has run on S the counts sum to Len(S) + 1,
\* PSEUDO_EOF is present with count 1 and every symbol of S is present with
\* its number of occurrences (and nothing else is).
C6_FrequencySum ==
    (pc # "c_start")
        => /\ SumOver(map, DOMAIN map) = Len(Scanned) + 1
           /\ PSEUDO_EOF \in DOMAIN map /\ map[PSEUDO_EOF] = 1
           /\ DOMAIN map = {CharToInt(Scanned[i]) : i \in DOMAIN Scanned}
                              \cup {PSEUDO_EOF}
           /\ \A i \in DOMAIN Scanned :
                 map[CharToInt(Scanned[i])] = Count(Scanned, Scanned[i])

C6_Witness ==
    /\ pc = "c_tree" /\ openable
    /\ Len(content) = 3 /\ content[1] = 200 /\ content[3] = 200
    /\ content[2] = 97

RECURSIVE CodeConcat(_, _, _)
CodeConcat(em, symbols, i) ==
    IF i > Len(symbols) THEN << >>
    ELSE em[symbols[i]] \o CodeConcat(em, symbols, i + 1)

C8_UnopenableReported ==
    (~openable)
        => /\ ~huf.written
           /\ pc = "c_done" => result = "UnopenableSource"

\* C9: buildEncodingTree on a model with no symbol reports EmptyModel; it
\* does not take the top of an empty priority queue and returns no root.
C9_EmptyModelReported ==
    (inHuf.kind = "noheader" /\ pc # "d_tree")
        => /\ ~emptyTop
           /\ result = "EmptyModel"

====
